---- MODULE Spec2Model ----
(***************************************************************************)
(* Model of actions/status-checker/src/pull-updater.ts.                    *)
(*                                                                         *)
(* Strings are sequences of tokens.  A token is an indivisible piece of    *)
(* text; the tokens are chosen so that no token is a prefix of another and *)
(* no concatenation of tokens creates an occurrence of 'docs/', '.md' or   *)
(* of a sentinel that is not itself a token.  Under that choice            *)
(* String.includes / indexOf / lastIndexOf / replace / endsWith on the     *)
(* text are the corresponding operations on the token sequence.  The two   *)
(* emoji of the table rows are written [doc] and [link].                   *)
(***************************************************************************)
EXTENDS Naturals, Sequences, FiniteSets, TLC

VARIABLES
  pc,                    \* position of the run / of the harness
  prNumber,              \* context.payload.number
  remoteBody,            \* the pull request's description on the host
  fetched,               \* how the await of getPullRequest settled
  pr,                    \* details.data.repository.pullRequest as fetched
  modifiedMarkdownFiles, \* local of tryUpdatePullRequestBody
  markdownTable,         \* local of tryUpdatePullRequestBody
  updatedBody,           \* local of tryUpdatePullRequestBody
  branch,                \* which arm of the if at line 35 ran
  updateCalls,           \* octokit.rest.pulls.update calls issued by this run
  response,              \* what the update call resolved to
  log,                   \* notice/warning calls of this run, in order
  outcome,               \* how the promise of the run settled
  runs,                  \* runs started so far
  body0,                 \* history: the description before the first run
  appended,              \* history: the bodies the host accepted, in order
  altFiles,              \* a second argument list for buildMarkdownPreviewTable
  altTable               \* its table

vars == <<pc, prNumber, remoteBody, fetched, pr, modifiedMarkdownFiles, markdownTable,
          updatedBody, branch, updateCalls, response, log, outcome, runs,
          body0, appended, altFiles, altTable>>

----------------------------------------------------------------------------
(* Bounds *)

MaxFiles == 2

MaxTableFiles == 2

MaxRuns == 2

MaxBodyLen == 4

----------------------------------------------------------------------------
(* Constants of the source *)

PREVIEW_TABLE_START == "<!-- PREVIEW-TABLE-START -->"

PREVIEW_TABLE_END == "<!-- PREVIEW-TABLE-END -->"

NL2 == "\n\n"

StartingIndexDiagnostic == <<"Unable to parse starting index of existing markdown table.">>

EndingIndexDiagnostic == <<"Unable to parse ending index of existing markdown table.">>

----------------------------------------------------------------------------
(* String primitives on token sequences *)

Range(s) == {s[i] : i \in 1..Len(s)}

\* String.prototype.includes, for a one-token needle
Includes(s, tok) == tok \in Range(s)

\* String.prototype.indexOf: position of the first occurrence, 0 for -1
IndexOf(s, tok) ==
  IF Includes(s, tok)
    THEN CHOOSE i \in 1..Len(s) : s[i] = tok /\ \A j \in 1..(i-1) : s[j] # tok
    ELSE 0

\* String.prototype.lastIndexOf: position of the last occurrence, 0 for -1
LastIndexOf(s, tok) ==
  IF Includes(s, tok)
    THEN CHOOSE i \in 1..Len(s) : s[i] = tok /\ \A j \in (i+1)..Len(s) : s[j] # tok
    ELSE 0

\* String.prototype.endsWith
EndsWith(s, tok) == Len(s) > 0 /\ s[Len(s)] = tok

\* String.prototype.replace(tok, ''): removes the FIRST occurrence only
ReplaceFirst(s, tok) ==
  LET i == IndexOf(s, tok)
  IN  IF i = 0 THEN s ELSE SubSeq(s, 1, i-1) \o SubSeq(s, i+1, Len(s))

\* Collation order of the tokens that occur in paths (punctuation, then
\* symbols, then letters), as String.prototype.localeCompare ranks them.
CollationOrder ==
  <<".md", ".txt", PREVIEW_TABLE_END, PREVIEW_TABLE_START, "a", "b", "docs/", "src/">>

Rank(tok) == CHOOSE i \in 1..Len(CollationOrder) : CollationOrder[i] = tok

\* a.localeCompare(b): -1, 0 or 1 coded as 0, 1, 2
RECURSIVE localeCompare(_, _)
localeCompare(a, b) ==
  IF Len(a) = 0 /\ Len(b) = 0 THEN 1
  ELSE IF Len(a) = 0 THEN 0
  ELSE IF Len(b) = 0 THEN 2
  ELSE IF Rank(Head(a)) < Rank(Head(b)) THEN 0
  ELSE IF Rank(Head(a)) > Rank(Head(b)) THEN 2
  ELSE localeCompare(Tail(a), Tail(b))

\* Array.prototype.sort with comparator (a, b) => a.localeCompare(b); stable
RECURSIVE InsertSorted(_, _)
InsertSorted(sorted, file) ==
  IF Len(sorted) = 0 THEN <<file>>
  ELSE IF localeCompare(file, sorted[Len(sorted)]) = 0
    THEN Append(InsertSorted(SubSeq(sorted, 1, Len(sorted) - 1), file), sorted[Len(sorted)])
    ELSE Append(sorted, file)

\* A sort that leaves the list as it came
SortFilesSkipped(files) == files

RECURSIVE SortFiles(_)
SortFiles(files) ==
  IF Len(files) = 0 THEN <<>>
  ELSE InsertSorted(SortFiles(SubSeq(files, 1, Len(files) - 1)), files[Len(files)])

----------------------------------------------------------------------------
(* The change filter *)

ChangeTypes == {"ADDED", "CHANGED", "MODIFIED", "DELETED", "RENAMED"}

\* A filter that lets every change type through
isFileModifiedAnyChange(edge) == edge.changeType \in ChangeTypes

isFileModified(edge) ==
  \/ edge.changeType = "ADDED"
  \/ edge.changeType = "CHANGED"
  \/ edge.changeType = "MODIFIED"

\* The value of the && chain: "true", "false", or "null" when the chain stops
\* at a null pr.files (pr.files.edges)
isPullRequestModifyingMarkdownFiles(p) ==
  IF ~(p.changedFiles > 0) THEN "false"
  ELSE IF ~p.hasFiles THEN "null"
  ELSE IF ~(Len(p.files) > 0) THEN "false"
  ELSE IF \E i \in 1..Len(p.files) :
            isFileModified(p.files[i]) /\ EndsWith(p.files[i].path, ".md")
    THEN "true"
  ELSE "false"

\* v == false, for the values the chain can produce: null == false is false
LooseEqualsFalse(v) == v = "false"

RECURSIVE FilterMarkdown(_)
FilterMarkdown(edges) ==
  IF Len(edges) = 0 THEN <<>>
  ELSE LET rest == FilterMarkdown(Tail(edges))
       IN  IF EndsWith(Head(edges).path, ".md") /\ isFileModified(Head(edges))
             THEN <<Head(edges).path>> \o rest
             ELSE rest

RECURSIVE FilterMarkdownOnly(_)
FilterMarkdownOnly(edges) ==
  IF Len(edges) = 0 THEN <<>>
  ELSE LET rest == FilterMarkdownOnly(Tail(edges))
       IN  IF EndsWith(Head(edges).path, ".md") THEN <<Head(edges).path>> \o rest ELSE rest

\* A selection that forgets the change type
getMarkdownFilesOfAnyChange(p) == FilterMarkdownOnly(p.files)

\* Throws a TypeError when pr.files is null; callers test p.hasFiles first
getModifiedMarkdownFiles(p) == FilterMarkdown(p.files)

----------------------------------------------------------------------------
(* The table builder *)

toLink(n, file) ==
  LET path == ReplaceFirst(ReplaceFirst(file, "docs/"), ".md")
  IN  <<"https://review.learn.microsoft.com/en-us/dotnet/">> \o path
        \o <<"?branch=pr-en-us-", ToString(n)>>

\* Map.prototype.set on an insertion-ordered map kept as a sequence of entries
MapSet(links, file, link) ==
  IF \E i \in 1..Len(links) : links[i].file = file
    THEN [i \in 1..Len(links) |->
            IF links[i].file = file THEN [file |-> file, link |-> link] ELSE links[i]]
    ELSE Append(links, [file |-> file, link |-> link])

RECURSIVE BuildLinks(_, _)
BuildLinks(n, sorted) ==
  IF Len(sorted) = 0 THEN <<>>
  ELSE LET file == sorted[Len(sorted)]
       IN  MapSet(BuildLinks(n, SubSeq(sorted, 1, Len(sorted) - 1)), file, toLink(n, file))

TableRow(file, link) ==
  <<"| [doc] _">> \o file \o <<"_ | [link] [Preview: ">> \o ReplaceFirst(file, ".md")
    \o <<"](">> \o link \o <<") |\n">>

RECURSIVE EmitRows(_)
EmitRows(links) ==
  IF Len(links) = 0 THEN <<>>
  ELSE TableRow(Head(links).file, Head(links).link) \o EmitRows(Tail(links))

buildMarkdownPreviewTable(n, files) ==
  <<"| File | Preview |\n", "|:--|:--|\n">> \o EmitRows(BuildLinks(n, SortFiles(files)))

----------------------------------------------------------------------------
(* The body splicer *)

replaceExistingTable(body, table) ==
  LET startIndex == IndexOf(body, PREVIEW_TABLE_START)
      endIndex   == LastIndexOf(body, PREVIEW_TABLE_END)
  IN  IF startIndex = 0 THEN StartingIndexDiagnostic
      ELSE IF endIndex = 0 THEN EndingIndexDiagnostic
      ELSE SubSeq(body, 1, startIndex) \o <<NL2>> \o table \o <<NL2>>
             \o SubSeq(body, endIndex, Len(body))

\* An append with a single line break
appendTableOneBreak(body, table) == body \o <<"\n">> \o table

\* An append that brackets the table in the sentinels
appendTableBracketed(body, table) ==
  body \o <<NL2, PREVIEW_TABLE_START, NL2>> \o table \o <<NL2, PREVIEW_TABLE_END>>

appendTable(body, table) == body \o <<NL2>> \o table

\* The if at line 35
HasBothSentinels(body) ==
  Includes(body, PREVIEW_TABLE_START) /\ Includes(body, PREVIEW_TABLE_END)

\* A branch taken as soon as either sentinel is present
spliceBranchEitherSentinel(body) ==
  IF Includes(body, PREVIEW_TABLE_START) \/ Includes(body, PREVIEW_TABLE_END)
    THEN "replace" ELSE "append"

spliceBranch(body) == IF HasBothSentinels(body) THEN "replace" ELSE "append"

spliceTable(body, table) ==
  IF spliceBranch(body) = "replace"
    THEN replaceExistingTable(body, table)
    ELSE appendTable(body, table)

----------------------------------------------------------------------------
(* Logging and the top-level try / catch / finally *)

Notice(message) == [level |-> "notice", message |-> message]

Warning(message) == [level |-> "warning", message |-> message]

StartGroup == [level |-> "group", message |-> "startGroup"]

EndGroup == [level |-> "group", message |-> "endGroup"]

\* A handler that lets the error escape
catchErrorRethrown(error) == [entries |-> <<>>, outcome |-> "raised"]

\* catch (error) { warning(error) }: the error is logged and swallowed
catchError(error) == [entries |-> <<Warning(error)>>, outcome |-> "returned"]

\* A test of the whole 200 range
isUpdatedAnySuccess(resp) == resp.present /\ resp.status \in 200..299

\* response && response.status === 200
isUpdated(resp) == resp.present /\ resp.status = 200

----------------------------------------------------------------------------
(* Inputs *)

PrNumbers == {7, 34443}

DocsA == <<"docs/", "a", ".md">>

DocsB == <<"docs/", "b", ".md">>

DocsATxt == <<"docs/", "a", ".txt">>

NestedDocs == <<"src/", "docs/", "a", ".md">>

DoubleSuffix == <<"docs/", "a", ".md", "b", ".md">>

MarkerPath == <<"docs/", PREVIEW_TABLE_START, PREVIEW_TABLE_END, ".md">>

RunPaths == {DocsA, DocsATxt, MarkerPath}

RunChangeTypes == {"ADDED", "MODIFIED", "DELETED"}

TablePaths == {DocsA, DocsB, DocsATxt, NestedDocs, DoubleSuffix}

\* Sequences over S of length at most n
SeqsUpTo(S, n) == UNION {[1..k -> S] : k \in 0..n}

Edges(paths, types) == [path : paths, changeType : types]

NoPull == [body |-> <<>>, changedFiles |-> 0, hasFiles |-> TRUE, files |-> <<>>]

NoResponse == [present |-> FALSE, status |-> 0]

Statuses == {200, 204, 404}

InitialBodies ==
  { <<>>,
    <<"x">>,
    <<"x", PREVIEW_TABLE_START, "y", PREVIEW_TABLE_END, "z">>,
    <<PREVIEW_TABLE_START, "x">>,
    <<"x", PREVIEW_TABLE_END>>,
    <<PREVIEW_TABLE_END, "x", PREVIEW_TABLE_START>> }

\* What the host answers to the query of getPullRequest: the description as
\* it stands and the file edges with a changed-file count (none, the number
\* of edges, or one with no edge at all), or a null files connection
Snapshots(body) ==
  UNION { { [body |-> body, changedFiles |-> c, hasFiles |-> TRUE, files |-> f] :
              c \in {0, IF Len(f) = 0 THEN 1 ELSE Len(f)} } :
          f \in SeqsUpTo(Edges(RunPaths, RunChangeTypes), MaxFiles) }
  \cup
  { [body |-> body, changedFiles |-> c, hasFiles |-> FALSE, files |-> <<>>] : c \in {0, 1} }

----------------------------------------------------------------------------
(* tryUpdatePullRequestBody, as the steps between its awaits *)

Init ==
  /\ pc = "idle"
  /\ prNumber \in PrNumbers
  /\ remoteBody \in InitialBodies
  /\ body0 = remoteBody
  /\ appended = <<>>
  /\ runs = 0
  /\ fetched = "pending"
  /\ pr = NoPull
  /\ modifiedMarkdownFiles = <<>>
  /\ markdownTable = <<>>
  /\ updatedBody = <<>>
  /\ branch = "none"
  /\ updateCalls = 0
  /\ response = NoResponse
  /\ log = <<>>
  /\ outcome = "pending"
  /\ altFiles = <<>>
  /\ altTable = <<>>

\* Lines 12-17: a run is invoked and awaits getPullRequest
StartRun ==
  /\ pc \in {"idle", "done"}
  /\ runs < MaxRuns
  /\ pc' = "fetching"
  /\ runs' = runs + 1
  /\ fetched' = "pending"
  /\ pr' = NoPull
  /\ modifiedMarkdownFiles' = <<>>
  /\ markdownTable' = <<>>
  /\ updatedBody' = <<>>
  /\ branch' = "none"
  /\ updateCalls' = 0
  /\ response' = NoResponse
  /\ log' = <<StartGroup>>
  /\ outcome' = "pending"
  /\ UNCHANGED <<prNumber, remoteBody, body0, appended, altFiles, altTable>>

\* The run ends through finally { endGroup() }
Finish(entries, settled) ==
  /\ pc' = "done"
  /\ log' = log \o entries \o <<EndGroup>>
  /\ outcome' = settled

\* Lines 17, 60-64: the query rejects
FetchThrows ==
  /\ pc = "fetching"
  /\ fetched' = "threw"
  /\ Finish(catchError("RequestError").entries, catchError("RequestError").outcome)
  /\ UNCHANGED <<prNumber, remoteBody, pr, modifiedMarkdownFiles, markdownTable,
                 updatedBody, branch, updateCalls, response, runs, body0, appended,
                 altFiles, altTable>>

\* Lines 18, 57-59: the query resolves to nothing
FetchReturnsNoDetails ==
  /\ pc = "fetching"
  /\ fetched' = "nodetails"
  /\ Finish(<<Notice("Unable to get the pull request from GitHub GraphQL")>>, "returned")
  /\ UNCHANGED <<prNumber, remoteBody, pr, modifiedMarkdownFiles, markdownTable,
                 updatedBody, branch, updateCalls, response, runs, body0, appended,
                 altFiles, altTable>>

\* Lines 19-20, 56: details without a pullRequest
FetchReturnsNoPull ==
  /\ pc = "fetching"
  /\ fetched' = "nopull"
  /\ Finish(<<>>, "returned")
  /\ UNCHANGED <<prNumber, remoteBody, pr, modifiedMarkdownFiles, markdownTable,
                 updatedBody, branch, updateCalls, response, runs, body0, appended,
                 altFiles, altTable>>

\* Lines 19-49: details with a pullRequest; the run goes on to one of the two
\* early returns, to the TypeError of a null pr.files, or to the update call
FetchReturnsPull ==
  /\ pc = "fetching"
  /\ \E p \in Snapshots(remoteBody) :
       /\ fetched' = "pull"
       /\ pr' = p
       /\ IF p.changedFiles = 0
            THEN /\ Finish(<<Warning("No files changed at all...")>>, "returned")
                 /\ UNCHANGED <<modifiedMarkdownFiles, markdownTable, updatedBody,
                                branch, updateCalls>>
          ELSE IF LooseEqualsFalse(isPullRequestModifyingMarkdownFiles(p))
            THEN /\ Finish(<<Warning("No updated markdown files...")>>, "returned")
                 /\ UNCHANGED <<modifiedMarkdownFiles, markdownTable, updatedBody,
                                branch, updateCalls>>
          ELSE IF ~p.hasFiles
            THEN /\ Finish(catchError("TypeError").entries, catchError("TypeError").outcome)
                 /\ UNCHANGED <<modifiedMarkdownFiles, markdownTable, updatedBody,
                                branch, updateCalls>>
          ELSE /\ modifiedMarkdownFiles' = getModifiedMarkdownFiles(p)
               /\ markdownTable' = buildMarkdownPreviewTable(prNumber, modifiedMarkdownFiles')
               /\ branch' = spliceBranch(p.body)
               /\ updatedBody' = spliceTable(p.body, markdownTable')
               /\ updateCalls' = updateCalls + 1
               /\ pc' = "updating"
               /\ UNCHANGED <<log, outcome>>
  /\ UNCHANGED <<prNumber, remoteBody, response, runs, body0, appended, altFiles, altTable>>

\* Lines 44-49, 60-64: the update call rejects; the host keeps its description
UpdateThrows ==
  /\ pc = "updating"
  /\ Finish(catchError("HttpError").entries, catchError("HttpError").outcome)
  /\ UNCHANGED <<prNumber, remoteBody, fetched, pr, modifiedMarkdownFiles, markdownTable,
                 updatedBody, branch, updateCalls, response, runs, body0, appended,
                 altFiles, altTable>>

\* The host stores the body it was sent when it answers in the 200 range
Accepted(resp) == resp.present /\ resp.status \in 200..299

\* Lines 44-55: the update call resolves
UpdateResolves ==
  /\ pc = "updating"
  /\ \E resp \in {NoResponse} \cup [present : {TRUE}, status : Statuses] :
       /\ response' = resp
       /\ IF isUpdated(resp)
            THEN Finish(<<Notice("Pull request updated...")>>, "returned")
            ELSE Finish(<<Warning("Unable to update pull request...")>>, "returned")
       /\ IF Accepted(resp)
            THEN /\ remoteBody' = updatedBody
                 /\ appended' = Append(appended, markdownTable)
            ELSE UNCHANGED <<remoteBody, appended>>
  /\ UNCHANGED <<prNumber, fetched, pr, modifiedMarkdownFiles, markdownTable, updatedBody,
                 branch, updateCalls, runs, body0, altFiles, altTable>>

Next ==
  \/ StartRun
  \/ FetchThrows
  \/ FetchReturnsNoDetails
  \/ FetchReturnsNoPull
  \/ FetchReturnsPull
  \/ UpdateThrows
  \/ UpdateResolves

Spec == Init /\ [][Next]_vars

----------------------------------------------------------------------------
(* getModifiedMarkdownFiles and buildMarkdownPreviewTable on their own, as    *)
(* exportedForTesting exposes them                                            *)

TableSnapshots ==
  { [body |-> <<>>, changedFiles |-> Len(f), hasFiles |-> TRUE, files |-> f] :
      f \in SeqsUpTo(Edges(TablePaths, ChangeTypes), MaxTableFiles) }

\* The lists that hold exactly the paths of l, in any order and multiplicity
Rearrangements(l) == {m \in SeqsUpTo(Range(l), MaxTableFiles + 1) : Range(m) = Range(l)}

InitTable ==
  /\ pc = "table:input"
  /\ prNumber \in PrNumbers
  /\ pr \in TableSnapshots
  /\ remoteBody = <<>>
  /\ body0 = <<>>
  /\ appended = <<>>
  /\ runs = 0
  /\ fetched = "pull"
  /\ modifiedMarkdownFiles = <<>>
  /\ markdownTable = <<>>
  /\ updatedBody = <<>>
  /\ branch = "none"
  /\ updateCalls = 0
  /\ response = NoResponse
  /\ log = <<>>
  /\ outcome = "pending"
  /\ altFiles = <<>>
  /\ altTable = <<>>

\* Lines 31-32
BuildTable ==
  /\ pc = "table:input"
  /\ modifiedMarkdownFiles' = getModifiedMarkdownFiles(pr)
  /\ markdownTable' = buildMarkdownPreviewTable(prNumber, modifiedMarkdownFiles')
  /\ pc' = "table:built"
  /\ UNCHANGED <<prNumber, remoteBody, fetched, pr, updatedBody, branch, updateCalls,
                 response, log, outcome, runs, body0, appended, altFiles, altTable>>

\* buildMarkdownPreviewTable called again on a rearrangement of the same paths
RebuildTable ==
  /\ pc = "table:built"
  /\ \E l \in Rearrangements(modifiedMarkdownFiles) :
       /\ altFiles' = l
       /\ altTable' = buildMarkdownPreviewTable(prNumber, l)
  /\ pc' = "table:rebuilt"
  /\ UNCHANGED <<prNumber, remoteBody, fetched, pr, modifiedMarkdownFiles, markdownTable,
                 updatedBody, branch, updateCalls, response, log, outcome, runs, body0,
                 appended>>

NextTable == BuildTable \/ RebuildTable

SpecTable == InitTable /\ [][NextTable]_vars

----------------------------------------------------------------------------
(* replaceExistingTable and appendTable on their own *)

BodyTokens == {"x", "y", PREVIEW_TABLE_START, PREVIEW_TABLE_END}

InitSplice ==
  /\ pc = "splice:input"
  /\ prNumber \in PrNumbers
  /\ \E b \in SeqsUpTo(BodyTokens, MaxBodyLen) : pr = [NoPull EXCEPT !.body = b]
  /\ modifiedMarkdownFiles \in {<<>>, <<DocsA>>}
  /\ markdownTable = buildMarkdownPreviewTable(prNumber, modifiedMarkdownFiles)
  /\ remoteBody = <<>>
  /\ body0 = <<>>
  /\ appended = <<>>
  /\ runs = 0
  /\ fetched = "pull"
  /\ updatedBody = <<>>
  /\ branch = "none"
  /\ updateCalls = 0
  /\ response = NoResponse
  /\ log = <<>>
  /\ outcome = "pending"
  /\ altFiles = <<>>
  /\ altTable = <<>>

\* Line 37, for any body
ReplaceTable ==
  /\ pc = "splice:input"
  /\ updatedBody' = replaceExistingTable(pr.body, markdownTable)
  /\ branch' = "replace"
  /\ pc' = "splice:done"
  /\ UNCHANGED <<prNumber, remoteBody, fetched, pr, modifiedMarkdownFiles, markdownTable,
                 updateCalls, response, log, outcome, runs, body0, appended, altFiles,
                 altTable>>

\* Line 40, for any body
AppendTable ==
  /\ pc = "splice:input"
  /\ updatedBody' = appendTable(pr.body, markdownTable)
  /\ branch' = "append"
  /\ pc' = "splice:done"
  /\ UNCHANGED <<prNumber, remoteBody, fetched, pr, modifiedMarkdownFiles, markdownTable,
                 updateCalls, response, log, outcome, runs, body0, appended, altFiles,
                 altTable>>

NextSplice == ReplaceTable \/ AppendTable

SpecSplice == InitSplice /\ [][NextSplice]_vars

----------------------------------------------------------------------------
(* Vocabulary of the properties, stated apart from the code's functions *)

AdditiveTypes == {"ADDED", "CHANGED", "MODIFIED"}

IsMarkdownPath(path) == Len(path) > 0 /\ path[Len(path)] = ".md"

IsAdditiveMarkdown(edge) == edge.changeType \in AdditiveTypes /\ IsMarkdownPath(edge.path)

Sentinels == {PREVIEW_TABLE_START, PREVIEW_TABLE_END}

SentinelCount(s) == Cardinality({i \in 1..Len(s) : s[i] \in Sentinels})

NoSentinel(s) == SentinelCount(s) = 0

LacksASentinel(s) == PREVIEW_TABLE_START \notin Range(s) \/ PREVIEW_TABLE_END \notin Range(s)

ExactlyOneSentinelKind(s) == (PREVIEW_TABLE_START \in Range(s)) # (PREVIEW_TABLE_END \in Range(s))

Logged(entry) == \E i \in 1..Len(log) : log[i] = entry

UpdateIssued == pc \in {"updating", "done"} /\ updateCalls > 0

\* body followed by each table of the list, each after a two-line-break join
RECURSIVE WithTablesAppended(_, _)
WithTablesAppended(body, tables) ==
  IF Len(tables) = 0 THEN body
  ELSE WithTablesAppended(body, SubSeq(tables, 1, Len(tables) - 1))
         \o <<NL2>> \o tables[Len(tables)]

----------------------------------------------------------------------------
(* Properties of a run *)

\* C1: a run issues the update call at most once, and only after the fetch
\* returned a pull request with changedFiles > 0 and some fetched file that is
\* additive and ends in '.md'; in every other case no update call is issued.
C1_UpdateOnlyForAdditiveMarkdown ==
  /\ updateCalls <= 1
  /\ updateCalls = 1 =>
       /\ fetched = "pull"
       /\ pr.changedFiles > 0
       /\ \E i \in 1..Len(pr.files) : IsAdditiveMarkdown(pr.files[i])
  /\ pc = "done" /\ fetched \in {"threw", "nodetails", "nopull"} => updateCalls = 0
  /\ pc = "done" /\ fetched = "pull" /\ pr.changedFiles = 0 => updateCalls = 0
  /\ pc = "done" /\ fetched = "pull"
       /\ (\A i \in 1..Len(pr.files) : ~IsMarkdownPath(pr.files[i].path)) => updateCalls = 0
  /\ pc = "done" /\ fetched = "pull"
       /\ (\A i \in 1..Len(pr.files) :
             IsMarkdownPath(pr.files[i].path) => pr.files[i].changeType \notin AdditiveTypes)
       => updateCalls = 0

\* C1 witness: a finished run that issued its update, on a snapshot that also
\* holds a deleted markdown file
C1_Witness ==
  /\ pc = "done"
  /\ updateCalls = 1
  /\ \E i \in 1..Len(pr.files) :
       IsMarkdownPath(pr.files[i].path) /\ pr.files[i].changeType = "DELETED"

\* C2: whatever the two remote calls do, the run settles by returning; no
\* exception reaches the caller, and the group is always closed.
C2_NeverPropagates ==
  /\ outcome # "raised"
  /\ pc = "done" => outcome = "returned" /\ log[Len(log)] = EndGroup

\* C2 witness: a run whose update call rejected has ended
C2_Witness == pc = "done" /\ updateCalls = 1 /\ Logged(Warning("HttpError"))

\* C3 as written: the notice is logged exactly for a status in 200..299
C3_NoticeIffTwoHundredRange ==
  pc = "done" /\ updateCalls = 1 /\ response.present =>
    /\ Logged(Notice("Pull request updated...")) <=> response.status \in 200..299
    /\ Logged(Warning("Unable to update pull request...")) <=> response.status \notin 200..299
    /\ outcome = "returned"

\* C3 amended: when the update call returns a response, the notice is logged
\* exactly when the status equals 200, the warning for every other status
\* (other statuses of the 200 range included), and the run returns either way.
C3_NoticeIffStatus200 ==
  pc = "done" /\ updateCalls = 1 /\ response.present =>
    /\ Logged(Notice("Pull request updated...")) <=> response.status = 200
    /\ Logged(Warning("Unable to update pull request...")) <=> response.status # 200
    /\ outcome = "returned"

\* C3 witness: a 204 answer was logged as a failure
C3_Witness ==
  /\ pc = "done"
  /\ response.present
  /\ response.status = 204
  /\ Logged(Warning("Unable to update pull request..."))

\* C7: when the fetched body lacks at least one sentinel, the body sent to the
\* update call is body + "\n\n" + table: the body is kept as a prefix and no
\* sentinel is added around the table.
C7_AppendWhenASentinelIsMissing ==
  UpdateIssued /\ LacksASentinel(pr.body) =>
    /\ updatedBody = pr.body \o <<NL2>> \o markdownTable
    /\ SubSeq(updatedBody, 1, Len(pr.body)) = pr.body
    /\ SentinelCount(updatedBody) = SentinelCount(pr.body) + SentinelCount(markdownTable)

\* C7 witness: an update was issued for a body without any sentinel
C7_Witness == UpdateIssued /\ pr.body = <<"x">> /\ Len(modifiedMarkdownFiles) > 0

\* C9 as written: from a body without sentinels no run takes the replace
\* branch and the body is the initial one followed by the appended tables
C9_NeverReplacesFromPlainBody ==
  NoSentinel(body0) =>
    /\ branch # "replace"
    /\ remoteBody = WithTablesAppended(body0, appended)

\* C9 amended: if the initial body contains no sentinel and no markdown path
\* put into a table contains one, no run takes the replace branch, and after k
\* accepted updates the body is the initial body followed by k appended tables.
C9_NeverReplacesWithoutMarkerPaths ==
  NoSentinel(body0) /\ (\A k \in 1..Len(appended) : NoSentinel(appended[k])) =>
    /\ branch # "replace"
    /\ remoteBody = WithTablesAppended(body0, appended)

\* C9 witness: two accepted updates in a row on a body that began plain
C9_Witness ==
  /\ pc = "done"
  /\ Len(appended) = 2
  /\ NoSentinel(body0)
  /\ \A k \in 1..Len(appended) : NoSentinel(appended[k])

\* C10 as written: with exactly one kind of sentinel in the fetched body, the
\* body sent to the update call is one of the two diagnostic strings
C10_DiagnosticIsSent ==
  UpdateIssued /\ ExactlyOneSentinelKind(pr.body) =>
    updatedBody \in {StartingIndexDiagnostic, EndingIndexDiagnostic}

\* C10 amended: replaceExistingTable, applied to a body with exactly one kind
\* of sentinel, returns the diagnostic string of the missing one; but the run
\* never applies it to such a body: it appends, and the body sent to the
\* update call is body + "\n\n" + table, never a diagnostic string.
C10_DiagnosticOnlyFromDirectCall ==
  UpdateIssued /\ ExactlyOneSentinelKind(pr.body) =>
    /\ replaceExistingTable(pr.body, markdownTable) =
         IF PREVIEW_TABLE_START \in Range(pr.body)
           THEN EndingIndexDiagnostic ELSE StartingIndexDiagnostic
    /\ branch = "append"
    /\ updatedBody \notin {StartingIndexDiagnostic, EndingIndexDiagnostic}
    /\ updatedBody = pr.body \o <<NL2>> \o markdownTable

\* C10 witness: an update was issued for a body with an end marker only
C10_Witness == UpdateIssued /\ pr.body = <<"x", PREVIEW_TABLE_END>>

----------------------------------------------------------------------------
(* Properties of the table *)

RowOpen == "| [doc] _"

RowMiddle == "_ | [link] [Preview: "

LinkOpen == "]("

RowClose == ") |\n"

\* The least position from i on that holds tok
NextPos(t, i, tok) == CHOOSE j \in i..Len(t) : t[j] = tok /\ \A k \in i..(j-1) : t[k] # tok

\* The table read back: for each row, the file cell and the link target
RECURSIVE TableRows(_, _)
TableRows(t, i) ==
  IF i > Len(t) THEN <<>>
  ELSE IF t[i] = RowOpen
    THEN LET m == NextPos(t, i, RowMiddle)
             o == NextPos(t, m, LinkOpen)
             c == NextPos(t, o, RowClose)
         IN  <<[file |-> SubSeq(t, i + 1, m - 1), link |-> SubSeq(t, o + 1, c - 1)]>>
               \o TableRows(t, c + 1)
    ELSE TableRows(t, i + 1)

TableBuilt == pc \in {"table:built", "table:rebuilt"}

\* C4: the rows of the table name exactly the paths of the fetched files that
\* end in '.md' and are ADDED, CHANGED or MODIFIED; each such path has exactly
\* one row, and the rows ascend by path.
C4_RowsAreTheAdditiveMarkdownPaths ==
  TableBuilt =>
    LET rows     == TableRows(markdownTable, 1)
        expected == {pr.files[i].path : i \in {j \in 1..Len(pr.files) : IsAdditiveMarkdown(pr.files[j])}}
    IN  /\ {rows[k].file : k \in 1..Len(rows)} = expected
        /\ Len(rows) = Cardinality(expected)
        /\ \A k \in 1..Len(rows) : \A l \in 1..Len(rows) :
             k < l => localeCompare(rows[k].file, rows[l].file) = 0

\* C4 witness: the table was built for two additive markdown files fetched in
\* descending order of path
C4_Witness ==
  /\ TableBuilt
  /\ pr.files = <<[path |-> DocsB, changeType |-> "MODIFIED"],
                  [path |-> DocsA, changeType |-> "CHANGED"]>>
  /\ Len(TableRows(markdownTable, 1)) = 2

\* C5: two argument lists that hold the same set of paths, in any order and
\* multiplicity, give the same table for the same pull number.
C5_TableDependsOnPathSetOnly ==
  pc = "table:rebuilt" /\ Range(altFiles) = Range(modifiedMarkdownFiles) =>
    altTable = markdownTable

\* C5 witness: the second list reverses the first and repeats a path
C5_Witness ==
  /\ pc = "table:rebuilt"
  /\ modifiedMarkdownFiles = <<DocsA, DocsB>>
  /\ altFiles = <<DocsB, DocsA, DocsB>>

\* The path with a leading 'docs/' and a trailing '.md' taken off
StripLeadingDocsAndSuffix(path) ==
  LET noPrefix == IF Len(path) > 0 /\ path[1] = "docs/" THEN Tail(path) ELSE path
  IN  IF IsMarkdownPath(noPrefix) THEN SubSeq(noPrefix, 1, Len(noPrefix) - 1) ELSE noPrefix

----------------------------------------------------------------------------
(* Properties of the splice *)

FirstStart(body) ==
  CHOOSE i \in 1..Len(body) :
    body[i] = PREVIEW_TABLE_START /\ \A j \in 1..(i-1) : body[j] # PREVIEW_TABLE_START

LastEnd(body) ==
  CHOOSE i \in 1..Len(body) :
    body[i] = PREVIEW_TABLE_END /\ \A j \in (i+1)..Len(body) : body[j] # PREVIEW_TABLE_END

\* C6: for a body with both sentinels, in any number and order, the result is
\* the text before the start sentinel, the start sentinel, a blank line, the
\* table, a blank line, the end sentinel and the text after the end sentinel;
\* no text of the body appears twice, so the result holds no more of the body
\* than the body itself.
C6_ReplaceKeepsOutsideOnly ==
  pc = "splice:done" /\ branch = "replace" /\ HasBothSentinels(pr.body) =>
    LET body == pr.body
        s    == FirstStart(body)
        e    == LastEnd(body)
    IN  /\ updatedBody =
             SubSeq(body, 1, s - 1) \o <<PREVIEW_TABLE_START, NL2>> \o markdownTable
               \o <<NL2, PREVIEW_TABLE_END>> \o SubSeq(body, e + 1, Len(body))
        /\ Len(updatedBody) <= Len(body) + Len(markdownTable) + 2

====
